---- MODULE Spec2Model ----
(***************************************************************************)
(* Model of api/maniswap.rs: the request handler and maniswap_swap.        *)
(*                                                                         *)
(* f64 is modelled as a binary floating-point format of the same design    *)
(* (round to nearest, ties to even, gradual underflow, overflow to         *)
(* infinity, NaN) with a reduced significand and exponent range.  A finite *)
(* value is an integer count of quanta of 2^-FracBits.  Signed zero is not *)
(* distinguished: no comparison or result of the program depends on it.    *)
(***************************************************************************)
EXTENDS Integers, Sequences, FiniteSets

\* ------------------------------------------------------------------------
\* Bounds of the floating-point model
\* ------------------------------------------------------------------------
Precision == 7
FracBits == 6
MaxExp == 8

RECURSIVE Pow2(_)
Pow2(n) == IF n <= 0 THEN 1 ELSE 2 * Pow2(n - 1)

Quantum == Pow2(FracBits)
MaxUnits == (Pow2(Precision) - 1) * Pow2(MaxExp + FracBits - Precision)
MinNormal == Pow2(Precision - 1)

Abs(x) == IF x < 0 THEN -x ELSE x
Sign(x) == IF x < 0 THEN -1 ELSE 1

\* ------------------------------------------------------------------------
\* f64 values
\* ------------------------------------------------------------------------
Fin(v) == [k |-> "fin", v |-> v]
NaN == [k |-> "nan", v |-> 0]
Inf(s) == [k |-> "inf", v |-> s]
Zero == Fin(0)

IsNaN(a) == a.k = "nan"
IsFinite(a) == a.k = "fin"
FSign(a) == Sign(a.v)

\* distance between neighbouring representable magnitudes at magnitude m
RECURSIVE Spacing(_)
Spacing(m) == IF m < Pow2(Precision) THEN 1 ELSE 2 * Spacing(m \div 2)

Representable(m) == m % Spacing(m) = 0 /\ m <= MaxUnits

\* num/den >= 0 rounded to the nearest representable magnitude, ties to even
RoundRat(num, den) ==
    LET i == num \div den
        u == Spacing(i)
        lo == i - (i % u)
        rest2 == 2 * ((i - lo) * den + (num % den))
        up == \/ rest2 > u * den
              \/ rest2 = u * den /\ (lo \div u) % 2 = 1
    IN  IF up THEN lo + u ELSE lo

FromMag(s, m) == IF m > MaxUnits THEN Inf(s) ELSE Fin(s * m)

FNeg(a) == IF IsNaN(a) THEN NaN ELSE [k |-> a.k, v |-> -a.v]

FAdd(a, b) ==
    IF IsNaN(a) \/ IsNaN(b) THEN NaN
    ELSE IF a.k = "inf" /\ b.k = "inf"
         THEN (IF a.v = b.v THEN a ELSE NaN)
    ELSE IF a.k = "inf" THEN a
    ELSE IF b.k = "inf" THEN b
    ELSE LET s == a.v + b.v IN FromMag(Sign(s), RoundRat(Abs(s), 1))

FSub(a, b) == FAdd(a, FNeg(b))

FMul(a, b) ==
    IF IsNaN(a) \/ IsNaN(b) THEN NaN
    ELSE IF a.k = "inf" \/ b.k = "inf"
         THEN (IF a.v = 0 \/ b.v = 0 THEN NaN ELSE Inf(FSign(a) * FSign(b)))
    ELSE FromMag(FSign(a) * FSign(b), RoundRat(Abs(a.v) * Abs(b.v), Quantum))

FDiv(a, b) ==
    IF IsNaN(a) \/ IsNaN(b) THEN NaN
    ELSE IF a.k = "inf"
         THEN (IF b.k = "inf" THEN NaN ELSE Inf(FSign(a) * FSign(b)))
    ELSE IF b.k = "inf" THEN Zero
    ELSE IF b.v = 0
         THEN (IF a.v = 0 THEN NaN ELSE Inf(FSign(a)))
    ELSE FromMag(FSign(a) * FSign(b), RoundRat(Abs(a.v) * Quantum, Abs(b.v)))

\* floor of the square root of a natural number
RECURSIVE ISqrt(_)
ISqrt(x) ==
    IF x = 0 THEN 0
    ELSE IF x < 4 THEN 1
    ELSE LET r == 2 * ISqrt(x \div 4)
         IN  IF (r + 1) * (r + 1) <= x THEN r + 1 ELSE r

IsSquare(x) == ISqrt(x) * ISqrt(x) = x

\* square root of x quanta^2 rounded to the nearest representable magnitude
SqrtRound(x) ==
    LET i == ISqrt(x)
        u == Spacing(i)
        lo == i - (i % u)
        hi == lo + u
    IN  IF 4 * x > (lo + hi) * (lo + hi) THEN hi ELSE lo

\* f64::powf(self, 0.5)
powf_half(a) ==
    IF IsNaN(a) THEN NaN
    ELSE IF a.k = "inf" THEN Inf(1)
    ELSE IF a.v < 0 THEN NaN
    ELSE Fin(SqrtRound(a.v * Quantum))

\* IEEE comparisons: false when either side is NaN
FEq(a, b) == ~IsNaN(a) /\ ~IsNaN(b) /\ a = b
FLe(a, b) ==
    /\ ~IsNaN(a) /\ ~IsNaN(b)
    /\ \/ a = b
       \/ a.k = "inf" /\ a.v = -1
       \/ b.k = "inf" /\ b.v = 1
       \/ a.k = "fin" /\ b.k = "fin" /\ a.v <= b.v
FLt(a, b) == FLe(a, b) /\ a # b

\* the f64 nearest to the integer n, and to n/4
Num(n) == FromMag(Sign(n), RoundRat(Abs(n) * Quantum, 1))
Quarter(n) == FromMag(Sign(n), RoundRat(Abs(n) * Quantum, 4))
MaxFloat == Fin(MaxUnits)
MinFloat == Fin(1)

\* ------------------------------------------------------------------------
\* maniswap_swap
\* ------------------------------------------------------------------------
\* the amount taken out of the input reserve instead of added to it
swap_n_minus(reserve_in, amount_in) == FSub(reserve_in, amount_in)

swap_n(reserve_in, amount_in) == FAdd(reserve_in, amount_in)

\* the invariant taken at the reserves before the trade
swap_k_pre_trade(reserve_in, reserve_out, amount_in) ==
    FMul(powf_half(reserve_out), powf_half(reserve_in))

swap_k(reserve_in, reserve_out, amount_in) ==
    FMul(powf_half(reserve_out), powf_half(swap_n(reserve_in, amount_in)))
swap_new_y(reserve_in, reserve_out, amount_in) ==
    FDiv(swap_k(reserve_in, reserve_out, amount_in),
         powf_half(swap_n(reserve_in, amount_in)))

\* the same formula with p = 1: k = y, new_y = k, nothing is paid out
maniswap_swap_p_one(reserve_in, reserve_out, amount_in) ==
    FSub(reserve_out, FDiv(FMul(reserve_out, Fin(Quantum)), Fin(Quantum)))

maniswap_swap(reserve_in, reserve_out, amount_in) ==
    FSub(reserve_out, swap_new_y(reserve_in, reserve_out, amount_in))

VARIABLES
    reqs,   \* per invocation of handler: position, body, locals, response
    log     \* the responses delivered so far, in order

vars == <<reqs, log>>

\* ------------------------------------------------------------------------
\* JSON values and the request body
\* ------------------------------------------------------------------------
JStr(s) == [t |-> "str", s |-> s, f |-> Zero]
JNum(f) == [t |-> "num", s |-> "", f |-> f]
JNull == [t |-> "null", s |-> "", f |-> Zero]
JAbsent == [t |-> "absent", s |-> "", f |-> Zero]

StringFields == {"token_a", "token_b", "input_token"}
NumberFields == {"reserve_a", "reserve_b", "amount_in"}
Fields == StringFields \cup NumberFields

\* struct SwapRequest
SwapRequest(token_a, reserve_a, token_b, reserve_b, input_token, amount_in) ==
    [token_a |-> token_a, reserve_a |-> reserve_a,
     token_b |-> token_b, reserve_b |-> reserve_b,
     input_token |-> input_token, amount_in |-> amount_in]

NoRequest == SwapRequest("", Zero, "", Zero, "", Zero)

\* serde_json::to_vec of a SwapRequest: the body a well-behaved client sends
BodyOf(r) ==
    [valid |-> TRUE,
     token_a |-> JStr(r.token_a), reserve_a |-> JNum(r.reserve_a),
     token_b |-> JStr(r.token_b), reserve_b |-> JNum(r.reserve_b),
     input_token |-> JStr(r.input_token), amount_in |-> JNum(r.amount_in)]

Garbage == [BodyOf(NoRequest) EXCEPT !.valid = FALSE]
NoBody == Garbage

\* serde_json::from_slice::<SwapRequest>: Ok exactly when the bytes are a JSON
\* object whose six fields are present with the declared types
\* number fields defaulted to 0 when missing
ParseOk_default(body) ==
    /\ body.valid
    /\ \A f \in StringFields : body[f].t = "str"
    /\ \A f \in NumberFields : body[f].t \in {"num", "absent"}

ParseOk(body) ==
    /\ body.valid
    /\ \A f \in StringFields : body[f].t = "str"
    /\ \A f \in NumberFields : body[f].t = "num"

ParsedRequest(body) ==
    SwapRequest(body.token_a.s, body.reserve_a.f, body.token_b.s,
                body.reserve_b.f, body.input_token.s, body.amount_in.f)

\* serde_json's f64 serializer: a non-finite value is written as null
to_json(x) == IF IsFinite(x) THEN JNum(x) ELSE JNull

\* ------------------------------------------------------------------------
\* Responses
\* ------------------------------------------------------------------------
BadRequest(text) ==
    [status |-> 400, content_type |-> "", text |-> text,
     amount_out |-> JAbsent, new_reserve_a |-> JAbsent, new_reserve_b |-> JAbsent]

\* a serializer that refuses non-finite numbers
SwapResponse_strict(amount_out, new_reserve_a, new_reserve_b) ==
    IF IsFinite(amount_out) /\ IsFinite(new_reserve_a) /\ IsFinite(new_reserve_b)
    THEN [status |-> 200, content_type |-> "application/json", text |-> "",
          amount_out |-> JNum(amount_out),
          new_reserve_a |-> JNum(new_reserve_a),
          new_reserve_b |-> JNum(new_reserve_b)]
    ELSE BadRequest("Invalid request body")

\* struct SwapResponse, serialized with status 200
SwapResponse(amount_out, new_reserve_a, new_reserve_b) ==
    [status |-> 200, content_type |-> "application/json", text |-> "",
     amount_out |-> to_json(amount_out),
     new_reserve_a |-> to_json(new_reserve_a),
     new_reserve_b |-> to_json(new_reserve_b)]

NoResponse ==
    [status |-> 0, content_type |-> "", text |-> "",
     amount_out |-> JAbsent, new_reserve_a |-> JAbsent, new_reserve_b |-> JAbsent]

Result(amount_out, new_reserve_a, new_reserve_b) ==
    [amount_out |-> amount_out, new_reserve_a |-> new_reserve_a,
     new_reserve_b |-> new_reserve_b]

NoResult == Result(Zero, Zero, Zero)

\* ------------------------------------------------------------------------
\* handler, lines 37-65: the branch and the tuple it binds
\* ------------------------------------------------------------------------
\* the token_b comparison made first
Branch_b_first(r) ==
    IF r.input_token = r.token_b THEN "sell_b"
    ELSE IF r.input_token = r.token_a THEN "sell_a"
    ELSE "invalid"

\* the final else branch missing: anything that is not token_a sells B
Branch_no_else(r) ==
    IF r.input_token = r.token_a THEN "sell_a" ELSE "sell_b"

Branch(r) ==
    IF r.input_token = r.token_a THEN "sell_a"
    ELSE IF r.input_token = r.token_b THEN "sell_b"
    ELSE "invalid"

\* the output reserve taken from the last delivered response, not the request
SellA_carried(r) ==
    LET last == IF log = <<>> THEN JAbsent ELSE log[Len(log)].response.new_reserve_b
        reserve_b == IF last.t = "num" THEN last.f ELSE r.reserve_b
        amount_out == maniswap_swap(r.reserve_a, reserve_b, r.amount_in)
    IN  Result(amount_out, FAdd(r.reserve_a, r.amount_in), FSub(reserve_b, amount_out))

\* the deposit left out of the input reserve
SellA_no_deposit(r) ==
    LET amount_out == maniswap_swap(r.reserve_a, r.reserve_b, r.amount_in)
    IN  Result(amount_out, r.reserve_a, FSub(r.reserve_b, amount_out))

SellA(r) ==
    LET amount_out == maniswap_swap(r.reserve_a, r.reserve_b, r.amount_in)
    IN  Result(amount_out, FAdd(r.reserve_a, r.amount_in), FSub(r.reserve_b, amount_out))

SellB(r) ==
    LET amount_out == maniswap_swap(r.reserve_b, r.reserve_a, r.amount_in)
    IN  Result(amount_out, FSub(r.reserve_a, amount_out), FAdd(r.reserve_b, r.amount_in))

\* ------------------------------------------------------------------------
\* State
\* ------------------------------------------------------------------------
MaxInflight == 2
MaxLog == 2

Slots == 1 .. MaxInflight

Idle ==
    [pc |-> "idle", body |-> NoBody, swap_request |-> NoRequest,
     result |-> NoResult, response |-> NoResponse, swap_calls |-> 0]

Init ==
    /\ reqs = [i \in Slots |-> Idle]
    /\ log = <<>>

\* a request arrives: run(handler) starts an invocation
Receive(i, body) ==
    /\ reqs[i].pc = "idle"
    /\ reqs' = [reqs EXCEPT ![i] = [Idle EXCEPT !.pc = "received", !.body = body]]
    /\ UNCHANGED log

\* handler, lines 28-35
Parse(i) ==
    /\ reqs[i].pc = "received"
    /\ reqs' = [reqs EXCEPT ![i] =
          IF ParseOk(reqs[i].body)
          THEN [@ EXCEPT !.pc = "parsed", !.swap_request = ParsedRequest(reqs[i].body)]
          ELSE [@ EXCEPT !.pc = "responded",
                         !.response = BadRequest("Invalid request body")]]
    /\ UNCHANGED log

\* handler, lines 37-76
Compute(i) ==
    /\ reqs[i].pc = "parsed"
    /\ LET r == reqs[i].swap_request
           b == Branch(r)
           res == IF b = "sell_a" THEN SellA(r) ELSE SellB(r)
       IN  reqs' = [reqs EXCEPT ![i] =
              IF b = "invalid"
              THEN [@ EXCEPT !.pc = "responded",
                             !.response = BadRequest("Invalid input token")]
              ELSE [@ EXCEPT !.pc = "responded",
                             !.result = res,
                             !.swap_calls = 1,
                             !.response = SwapResponse(res.amount_out,
                                                       res.new_reserve_a,
                                                       res.new_reserve_b)]]
    /\ UNCHANGED log

\* the runtime sends the response and the invocation ends
Deliver(i) ==
    /\ reqs[i].pc = "responded"
    /\ Len(log) < MaxLog
    /\ log' = Append(log, [body |-> reqs[i].body,
                           swap_request |-> reqs[i].swap_request,
                           result |-> reqs[i].result,
                           response |-> reqs[i].response])
    /\ reqs' = [reqs EXCEPT ![i] = Idle]

\* ------------------------------------------------------------------------
\* Requests
\* ------------------------------------------------------------------------
TokenA == {"X", "Y"}
TokenB == {"X", "Y"}
InputTokens == {"X", "Y", "x"}

Reserves ==
    {Num(-1), Zero, MinFloat, Quarter(1), Num(1), Num(2), Num(4), Num(10), Num(100),
     MaxFloat}
Amounts ==
    {Num(-1), Zero, MinFloat, Quarter(1), Num(1), Num(2), Num(10), Num(50), MaxFloat}

WellFormedRequests ==
    {SwapRequest(ta, ra, tb, rb, it, ai) :
        ta \in TokenA, ra \in Reserves, tb \in TokenB, rb \in Reserves,
        it \in InputTokens, ai \in Amounts}

BaseRequests ==
    {SwapRequest(ta, Num(100), tb, Num(100), it, Num(10)) :
        ta \in TokenA, tb \in TokenB, it \in InputTokens}

\* a body with one field missing, null or of the wrong JSON type
Corrupt(body, f, how) ==
    [body EXCEPT ![f] =
        IF how = "absent" THEN JAbsent
        ELSE IF how = "null" THEN JNull
        ELSE IF f \in NumberFields THEN JStr("10") ELSE JNum(Num(1))]

MalformedBodies ==
    {Corrupt(BodyOf(r), f, how) :
        r \in BaseRequests, f \in Fields, how \in {"absent", "null", "mistyped"}}
    \cup {Garbage}

Bodies == {BodyOf(r) : r \in WellFormedRequests} \cup MalformedBodies

\* the follow-up request of a client that sold token_a and now sells the
\* amount it received back, against the reserves the response reported
SwapBackBody(e) ==
    [e.body EXCEPT !.reserve_a = e.response.new_reserve_a,
                   !.reserve_b = e.response.new_reserve_b,
                   !.input_token = e.body.token_b,
                   !.amount_in = e.response.amount_out]

SwapBack ==
    /\ Len(log) = 1
    /\ log[1].response.status = 200
    /\ Branch(log[1].swap_request) = "sell_a"
    /\ Receive(1, SwapBackBody(log[1]))

Next ==
    \/ (log = <<>> /\ reqs[1].pc = "idle" /\ \E body \in Bodies : Receive(1, body))
    \/ Parse(1)
    \/ Compute(1)
    \/ Deliver(1)
    \/ SwapBack

Spec == Init /\ [][Next]_vars

\* ------------------------------------------------------------------------
\* Several invocations in flight at once
\* ------------------------------------------------------------------------
ServerBodies ==
    {BodyOf(SwapRequest("X", Num(100), "Y", Num(100), "X", Num(10))),
     BodyOf(SwapRequest("X", Num(4), "Y", Num(100), "Y", Num(2))),
     BodyOf(SwapRequest("X", Num(100), "Y", Num(100), "x", Num(10))),
     Corrupt(BodyOf(SwapRequest("X", Num(100), "Y", Num(100), "X", Num(10))),
             "amount_in", "absent")}

NextServer ==
    \E i \in Slots :
        \/ \E body \in ServerBodies : Receive(i, body)
        \/ Parse(i)
        \/ Compute(i)
        \/ Deliver(i)

SpecServer == Init /\ [][NextServer]_vars

\* ------------------------------------------------------------------------
\* Properties
\* ------------------------------------------------------------------------
Responded(i) == reqs[i].pc = "responded"

\* the request body of the interface: a JSON object with three string and
\* three number fields
WellFormed(body) ==
    /\ body.valid
    /\ body.token_a.t = "str" /\ body.token_b.t = "str" /\ body.input_token.t = "str"
    /\ body.reserve_a.t = "num" /\ body.reserve_b.t = "num" /\ body.amount_in.t = "num"
Req(i) == ParsedRequest(reqs[i].body)
Res(i) == reqs[i].result

ExampleRequest == SwapRequest("X", Num(100), "Y", Num(100), "X", Num(10))

\* C1: for a well-formed request the handler compares input_token with
\* token_a first (sell A: amount_out = swap(reserve_a, reserve_b, amount_in),
\* new_reserve_a = reserve_a + amount_in, new_reserve_b = reserve_b -
\* amount_out, also when token_b is the same string), then with token_b (sell
\* B, mirrored); the example X/100/Y/100/X/10 gives new_reserve_a == 110.
RoutingByTokenOrder ==
    \A i \in Slots :
        (Responded(i) /\ WellFormed(reqs[i].body)) =>
            LET r == Req(i) IN
            /\ r.input_token = r.token_a =>
                  /\ Res(i).amount_out =
                        maniswap_swap(r.reserve_a, r.reserve_b, r.amount_in)
                  /\ Res(i).new_reserve_a = FAdd(r.reserve_a, r.amount_in)
                  /\ Res(i).new_reserve_b = FSub(r.reserve_b, Res(i).amount_out)
            /\ (r.input_token # r.token_a /\ r.input_token = r.token_b) =>
                  /\ Res(i).amount_out =
                        maniswap_swap(r.reserve_b, r.reserve_a, r.amount_in)
                  /\ Res(i).new_reserve_a = FSub(r.reserve_a, Res(i).amount_out)
                  /\ Res(i).new_reserve_b = FAdd(r.reserve_b, r.amount_in)
            /\ r.input_token \in {r.token_a, r.token_b} =>
                  reqs[i].response = SwapResponse(Res(i).amount_out,
                                                  Res(i).new_reserve_a,
                                                  Res(i).new_reserve_b)
            /\ r = ExampleRequest =>
                  /\ FEq(Res(i).new_reserve_a, Num(110))
                  /\ reqs[i].response.new_reserve_a = JNum(Num(110))

\* a request whose input_token equals both pool tokens, with different
\* reserves, answered as a sale of A
RoutingTieWitness ==
    \E i \in Slots :
        /\ Responded(i) /\ WellFormed(reqs[i].body)
        /\ Req(i).token_a = Req(i).token_b
        /\ Req(i).input_token = Req(i).token_a
        /\ Req(i).reserve_a = Num(4) /\ Req(i).reserve_b = Num(100)
        /\ Req(i).amount_in = Num(2)
        /\ FEq(Res(i).new_reserve_a, Num(6))
        /\ reqs[i].response.status = 200

\* C2: a well-formed request whose input_token is neither pool token gets
\* 400 "Invalid input token", maniswap_swap is not called and nothing is
\* computed; no other request gets that response.
InvalidTokenRejected ==
    \A i \in Slots :
        Responded(i) =>
            /\ (WellFormed(reqs[i].body)
                /\ Req(i).input_token \notin {Req(i).token_a, Req(i).token_b})
               <=> reqs[i].response = BadRequest("Invalid input token")
            /\ reqs[i].response.text = "Invalid input token" =>
                  /\ reqs[i].response.status = 400
                  /\ reqs[i].swap_calls = 0
                  /\ Res(i) = NoResult
                  /\ reqs[i].response.amount_out = JAbsent
                  /\ reqs[i].response.new_reserve_a = JAbsent
                  /\ reqs[i].response.new_reserve_b = JAbsent

InvalidTokenWitness ==
    \E i \in Slots :
        /\ Responded(i) /\ WellFormed(reqs[i].body)
        /\ Req(i).input_token = "x" /\ Req(i).token_a = "X" /\ Req(i).token_b = "Y"
        /\ reqs[i].response = BadRequest("Invalid input token")

\* C3: a body that does not parse (a field missing, null or of the wrong
\* type, or no JSON object at all) gets 400 "Invalid request body", never a
\* computed result and never "Invalid input token", whatever its tokens are.
MalformedRejected ==
    \A i \in Slots :
        Responded(i) =>
            /\ ~WellFormed(reqs[i].body) <=>
                  reqs[i].response = BadRequest("Invalid request body")
            /\ ~WellFormed(reqs[i].body) =>
                  /\ reqs[i].swap_calls = 0
                  /\ Res(i) = NoResult
                  /\ reqs[i].response.text # "Invalid input token"

\* amount_in missing from a body whose input_token matches no pool token
MalformedWitness ==
    \E i \in Slots :
        /\ Responded(i)
        /\ reqs[i].body.amount_in = JAbsent
        /\ reqs[i].body.input_token = JStr("x")
        /\ reqs[i].body.token_a = JStr("X") /\ reqs[i].body.token_b = JStr("Y")
        /\ reqs[i].response = BadRequest("Invalid request body")

\* C10: every well-formed request whose input_token is a pool token gets
\* 200 with the three fields, whatever the signs and sizes of the numbers;
\* amount_out may then be zero, negative or not a number.
NoNumericValidation ==
    \A i \in Slots :
        (Responded(i) /\ WellFormed(reqs[i].body)
         /\ Req(i).input_token \in {Req(i).token_a, Req(i).token_b}) =>
            /\ reqs[i].response.status = 200
            /\ reqs[i].response.content_type = "application/json"
            /\ reqs[i].response.text = ""
            /\ reqs[i].response.amount_out.t \in {"num", "null"}
            /\ reqs[i].response.new_reserve_a.t \in {"num", "null"}
            /\ reqs[i].response.new_reserve_b.t \in {"num", "null"}
            /\ reqs[i].swap_calls = 1

\* reserve_in + amount_in = 0 with a negative amount: amount_out is NaN and
\* the response is still 200
NoNumericValidationWitness ==
    \E i \in Slots :
        /\ Responded(i) /\ WellFormed(reqs[i].body)
        /\ Req(i).input_token = Req(i).token_a
        /\ Req(i).reserve_a = Num(1) /\ Req(i).amount_in = Num(-1)
        /\ IsNaN(Res(i).amount_out)
        /\ reqs[i].response.status = 200
        /\ reqs[i].response.amount_out = JNull

\* ------------------------------------------------------------------------
\* Numeric properties of a successful swap
\* ------------------------------------------------------------------------
ValidSwap(i) ==
    /\ Responded(i) /\ WellFormed(reqs[i].body)
    /\ Req(i).input_token \in {Req(i).token_a, Req(i).token_b}

SellsA(i) == Req(i).input_token = Req(i).token_a

NonNegative(i) ==
    /\ FLe(Zero, Req(i).reserve_a)
    /\ FLe(Zero, Req(i).reserve_b)
    /\ FLe(Zero, Req(i).amount_in)

ReserveIn(i) == IF SellsA(i) THEN Req(i).reserve_a ELSE Req(i).reserve_b
ReserveOut(i) == IF SellsA(i) THEN Req(i).reserve_b ELSE Req(i).reserve_a
NewReserveIn(i) == IF SellsA(i) THEN Res(i).new_reserve_a ELSE Res(i).new_reserve_b
NewReserveOut(i) == IF SellsA(i) THEN Res(i).new_reserve_b ELSE Res(i).new_reserve_a
AmountIn(i) == Req(i).amount_in
AmountOut(i) == Res(i).amount_out

\* reserve_in + amount_in, finite and positive
PostTradeIn(i) == FAdd(ReserveIn(i), AmountIn(i))
PositiveFiniteIn(i) == IsFinite(PostTradeIn(i)) /\ FLt(Zero, PostTradeIn(i))

\* the sum of two finite values is computed without rounding
ExactSum(a, b) == Representable(Abs(a.v + b.v))

DeltaAIsAmountIn(i) ==
    FEq(FSub(Res(i).new_reserve_a, Req(i).reserve_a), AmountIn(i))
DeltaBIsAmountIn(i) ==
    FEq(FSub(Res(i).new_reserve_b, Req(i).reserve_b), AmountIn(i))

\* C4 as stated: for every valid swap of non-negative inputs exactly one of
\* new_reserve_a - reserve_a == amount_in, new_reserve_b - reserve_b ==
\* amount_in holds.
ConservationXor ==
    \A i \in Slots :
        (ValidSwap(i) /\ NonNegative(i)) =>
            (DeltaAIsAmountIn(i) # DeltaBIsAmountIn(i))

\* C4 amended: for every valid swap of non-negative inputs the input token's
\* new reserve is reserve + amount_in and the output token's is reserve -
\* amount_out (f64 operations); the exclusive-or test holds when amount_in >
\* 0, the sum reserve + amount_in is exact and amount_out is not negative.
ConservationShape ==
    \A i \in Slots :
        (ValidSwap(i) /\ NonNegative(i)) =>
            /\ NewReserveIn(i) = FAdd(ReserveIn(i), AmountIn(i))
            /\ NewReserveOut(i) = FSub(ReserveOut(i), AmountOut(i))
            /\ (/\ FLt(Zero, AmountIn(i))
                /\ ExactSum(ReserveIn(i), AmountIn(i))
                /\ (IsNaN(AmountOut(i)) \/ FLe(Zero, AmountOut(i))))
               => (DeltaAIsAmountIn(i) # DeltaBIsAmountIn(i))

ConservationWitness ==
    \E i \in Slots :
        /\ ValidSwap(i) /\ NonNegative(i) /\ SellsA(i)
        /\ Req(i).token_a # Req(i).token_b
        /\ Req(i).reserve_a = Num(4) /\ Req(i).reserve_b = Num(100)
        /\ AmountIn(i) = Num(10)
        /\ FEq(Res(i).new_reserve_a, Num(14))
        /\ FEq(Res(i).new_reserve_b, Num(10))
        /\ DeltaAIsAmountIn(i) /\ ~DeltaBIsAmountIn(i)

\* C5 as stated: for all non-negative reserves and amount_in, amount_out <=
\* the reserve of the output token before the swap.
AmountOutWithinReserve ==
    \A i \in Slots :
        (ValidSwap(i) /\ NonNegative(i)) => FLe(AmountOut(i), ReserveOut(i))

\* C5 amended: for non-negative inputs with 0 < reserve_in + amount_in <
\* +infinity, amount_out <= the output token's reserve and that token's new
\* reserve is not negative; when the sum is 0 or overflows, amount_out is NaN.
AmountOutWithinReserveWhenPositive ==
    \A i \in Slots :
        (ValidSwap(i) /\ NonNegative(i)) =>
            IF PositiveFiniteIn(i)
            THEN /\ FLe(AmountOut(i), ReserveOut(i))
                 /\ FLe(Zero, NewReserveOut(i))
            ELSE IsNaN(AmountOut(i)) /\ IsNaN(NewReserveOut(i))

AmountOutWithinReserveWitness ==
    \E i \in Slots :
        /\ ValidSwap(i) /\ NonNegative(i) /\ PositiveFiniteIn(i)
        /\ ~SellsA(i)
        /\ ReserveOut(i) = Num(100) /\ AmountIn(i) = Num(50)
        /\ FEq(AmountOut(i), Num(90))
        /\ FEq(NewReserveOut(i), Num(10))

\* sqrt(reserve_out) and sqrt(reserve_in + amount_in) as powf returns them
RootOut(i) == powf_half(ReserveOut(i))
RootIn(i) == powf_half(PostTradeIn(i))

\* the product of the two roots neither underflows nor overflows
ProductInNormalRange(i) ==
    LET prod == RootOut(i).v * RootIn(i).v
    IN  /\ prod = 0 \/ prod >= MinNormal * Quantum
        /\ prod <= MaxUnits * Quantum

\* C6 as stated: for n > 0 the result is reserve_out - reserve_out^0.5,
\* whatever reserve_in and amount_in are (taken here where it is most likely
\* to hold: non-negative inputs, no overflow, no underflow).
OutputIndependentOfInput ==
    \A i \in Slots :
        (ValidSwap(i) /\ NonNegative(i) /\ PositiveFiniteIn(i)
         /\ ProductInNormalRange(i)) =>
            FEq(AmountOut(i), FSub(ReserveOut(i), RootOut(i)))

\* C6 amended: for non-negative inputs with n finite and positive and no
\* underflow or overflow of the product, amount_out is reserve_out - new_y
\* for a new_y within two units in the last place of reserve_out^0.5, so it
\* depends on reserve_in and amount_in by rounding error only; for reserves
\* 100, 100 and amount_in 50 it is exactly 90.
OutputWithinRounding ==
    \A i \in Slots :
        (ValidSwap(i) /\ NonNegative(i) /\ PositiveFiniteIn(i)
         /\ ProductInNormalRange(i)) =>
            LET s == RootOut(i).v
                e == 2 * Spacing(s)
            IN  /\ FLe(FSub(ReserveOut(i), Fin(s + e)), AmountOut(i))
                /\ FLe(AmountOut(i), FSub(ReserveOut(i), Fin(s - e)))
                /\ (ReserveIn(i) = Num(100) /\ ReserveOut(i) = Num(100)
                    /\ AmountIn(i) = Num(50)) => FEq(AmountOut(i), Num(90))

\* a call whose result differs from reserve_out - reserve_out^0.5
OutputWithinRoundingWitness ==
    \E i \in Slots :
        /\ ValidSwap(i) /\ NonNegative(i) /\ PositiveFiniteIn(i)
        /\ ProductInNormalRange(i)
        /\ ~FEq(AmountOut(i), FSub(ReserveOut(i), RootOut(i)))

\* every step of the formula is exact for these inputs
ExactArithmetic(i) ==
    LET n == ReserveIn(i).v + AmountIn(i).v
        y == ReserveOut(i).v
        sy == ISqrt(y * Quantum)
        sn == ISqrt(n * Quantum)
    IN  /\ IsFinite(ReserveIn(i)) /\ IsFinite(AmountIn(i)) /\ IsFinite(ReserveOut(i))
        /\ y >= 0 /\ n > 0 /\ Representable(n)
        /\ IsSquare(y * Quantum) /\ IsSquare(n * Quantum)
        /\ (sy * sn) % Quantum = 0
        /\ Representable((sy * sn) \div Quantum)
        /\ Representable(Abs(y - sy))

\* C9 as stated: computed without rounding error, swap returns 0 whenever
\* reserve_in + amount_in > 0.
ExactResultIsZero ==
    \A i \in Slots :
        (ValidSwap(i) /\ ExactArithmetic(i)) => FEq(AmountOut(i), Zero)

\* C9 amended: computed without rounding error, swap returns reserve_out -
\* reserve_out^0.5 whenever reserve_in + amount_in > 0, which is 0 only for
\* reserve_out 0 or 1.
ExactResultIsReserveMinusRoot ==
    \A i \in Slots :
        (ValidSwap(i) /\ ExactArithmetic(i)) =>
            /\ AmountOut(i) = Fin(ReserveOut(i).v - ISqrt(ReserveOut(i).v * Quantum))
            /\ FEq(AmountOut(i), Zero) <=> ReserveOut(i) \in {Zero, Num(1)}

ExactResultWitness ==
    \E i \in Slots :
        /\ ValidSwap(i) /\ ExactArithmetic(i)
        /\ ReserveIn(i) = Num(2) /\ AmountIn(i) = Num(2)
        /\ ReserveOut(i) = Num(4)
        /\ FEq(AmountOut(i), Num(2))

\* ------------------------------------------------------------------------
\* Selling A and selling the proceeds back
\* ------------------------------------------------------------------------
\* equal up to a few units in the last place
Close(a, b) ==
    /\ IsFinite(a) /\ IsFinite(b)
    /\ Abs(a.v - b.v) <= 4 * Spacing(Abs(a.v) + Abs(b.v))

RoundTrip ==
    /\ Len(log) = 2
    /\ log[2].body = SwapBackBody(log[1])
    /\ log[1].response.status = 200 /\ log[2].response.status = 200
    /\ log[1].swap_request.token_a # log[1].swap_request.token_b
    /\ log[1].swap_request.input_token = log[1].swap_request.token_a
    /\ FLe(Num(1), log[1].swap_request.reserve_a)
    /\ FLe(Num(1), log[1].swap_request.reserve_b)
    /\ FLe(Num(1), log[1].swap_request.amount_in)
    /\ FLe(Num(1), log[1].result.amount_out)

\* C7: selling amount_in of token_a and then selling the amount_out received
\* back against the updated reserves returns amount_in and restores both
\* reserves, up to rounding.
RoundTripSymmetric ==
    RoundTrip =>
        /\ Close(log[2].result.amount_out, log[1].swap_request.amount_in)
        /\ Close(log[2].result.new_reserve_a, log[1].swap_request.reserve_a)
        /\ Close(log[2].result.new_reserve_b, log[1].swap_request.reserve_b)

\* ------------------------------------------------------------------------
\* Invocations do not influence each other
\* ------------------------------------------------------------------------
\* C8: the response to a request depends on that request alone: any two
\* invocations with the same body, delivered or still in flight, whatever was
\* handled before or meanwhile, have the same response.
SameRequestSameResponse ==
    /\ \A j, k \in 1 .. Len(log) :
          log[j].body = log[k].body => log[j].response = log[k].response
    /\ \A i \in Slots : \A j \in 1 .. Len(log) :
          (Responded(i) /\ reqs[i].body = log[j].body) =>
              reqs[i].response = log[j].response
    /\ \A i, j \in Slots :
          (Responded(i) /\ Responded(j) /\ reqs[i].body = reqs[j].body) =>
              reqs[i].response = reqs[j].response

\* the same request answered again after a different one was delivered, with
\* another invocation in flight
SameRequestWitness ==
    /\ Len(log) = 2
    /\ log[1].body # log[2].body
    /\ log[1].response.status = 200 /\ log[2].response.status = 200
    /\ \E i, j \in Slots :
          /\ i # j
          /\ Responded(i)
          /\ reqs[i].body = log[1].body
          /\ reqs[i].response = log[1].response
          /\ reqs[j].pc = "parsed"

====
